---------------------------- MODULE Spec2Model ----------------------------
(***************************************************************************)
(* Model of build.rs of mkl-sys: the build script that resolves the MKL    *)
(* installation directories, emits cargo link directives, computes the     *)
(* clang arguments, selects the symbol allowlist and runs the binding      *)
(* generator with the Callbacks parse callbacks.                           *)
(*                                                                         *)
(* cfg!(feature = ..) and cfg!(target_os = ..) are fixed per build; they   *)
(* are the variables features and target_os, chosen in Init.  The process  *)
(* environment (env), the file system (fs) and the integer macro the       *)
(* binding generator passes to Callbacks::int_macro (header) are inputs    *)
(* chosen in Init as well.  main is modelled statement by statement with   *)
(* the program counter pc.                                                 *)
(***************************************************************************)
EXTENDS Integers, Sequences, FiniteSets, TLC

VARIABLES
    features,      \* the enabled cargo features (cfg!(feature = ..))
    target_os,     \* cfg!(target_os = ..)
    env,           \* the process environment: variable -> Err(VarError) | Ok(value)
    fs,            \* the set of paths that exist on disk
    header,        \* the integer macro the generator passes to int_macro: [name, value]
    pc,            \* position in main
    attempts,      \* the resolution strategies called so far: [strategy, res, printed]
    install_dirs,  \* main's install_dirs : Option<InstallationDirectories>
    out,           \* the lines printed to stdout, in order
    clang_args,    \* main's clang_args
    allowlist,     \* the allowlist patterns added to the builder, in order
    macro_calls,   \* the calls of Callbacks::int_macro made so far, with their result
    panic          \* the panic message, "" while main has not panicked

vars == <<features, target_os, env, fs, header, pc, attempts, install_dirs,
          out, clang_args, allowlist, macro_calls, panic>>

-----------------------------------------------------------------------------
(* Bounds and input domains *)

\* longest macro name (in characters) the generator passes to int_macro
MaxNameLen == 5

ModuleFeatures ==
    {"all", "dss", "axpy", "sparse-matrix-checker", "extended-eigensolver",
     "inspector-executor"}

Features == ModuleFeatures \cup {"ilp64", "openmp", "tbb"}

\* windows, linux and macos are the supported targets; freebsd stands for any other
TargetOSes == {"windows", "linux", "macos", "freebsd"}

EnvVars == {"MKL_LIB_DIR", "MKL_INCLUDE_DIR", "TBB_LIB_DIR", "OMP_LIB_DIR", "ONEAPI_ROOT"}

\* env::var errors (std::env::VarError)
NotPresent == "environment variable not found"
NotUnicode == "environment variable was not valid unicode"

\* Option<T>
None == <<>>
Some(x) == <<x>>

\* Result<T, String>
Ok(x) == [ok |-> TRUE, val |-> x]
Err(e) == [ok |-> FALSE, err |-> e]

\* A function's outcome together with the lines it printed
Ret(r, printed) == [res |-> r, printed |-> printed]

\* A function that returned v, and one that panicked with msg
Returns(v) == [panic |-> "", val |-> v]
Panics(msg) == [panic |-> msg, val |-> <<>>]

\* std::env::var(name): env holds, for each variable, the Result env::var gives
\* (Err(NotPresent), Err(NotUnicode) or Ok(value))
EnvVar(name) == env[name]

\* Path::exists
Exists(path) == path \in fs

\* PathBuf::from(s).to_str(): a PathBuf built from a &str holds the bytes of s,
\* which are valid UTF-8, so to_str is Some(s) and the ok_or(..)? never returns
ToStr(s) == Some(s)

\* One printed line: println!("<directive>={}", v), or println!("WARNING: {}", v)
Line(directive, v) == [d |-> directive, v |-> v]

\* println!("cargo:warning=The '<what>' folder with path '{}' does not exist.", path)
Warning(what, path) ==
    Line("cargo:warning",
         "The '" \o what \o "' folder with path '" \o path \o "' does not exist.")

SeqIf(cond, s) == IF cond THEN s ELSE <<>>

-----------------------------------------------------------------------------
(* InstallationDirectories *)

InstallationDirectories(mkl_lib_dir, omp_lib_dir, tbb_lib_dir, include_dir) ==
    [mkl_lib_dir |-> mkl_lib_dir, omp_lib_dir |-> omp_lib_dir,
     tbb_lib_dir |-> tbb_lib_dir, include_dir |-> include_dir]

\* try_custom changed to fail on a missing library directory
try_custom_strict(mkl_lib_dir, mkl_include_dir, tbb_lib_dir, omp_lib_dir) ==
    IF ~Exists(mkl_lib_dir)
    THEN Ret(Err("The 'mkl_lib_dir_path' folder does not exist"), <<>>)
    ELSE Ret(Ok(InstallationDirectories(mkl_lib_dir, omp_lib_dir, tbb_lib_dir,
                                        mkl_include_dir)),
             SeqIf("openmp" \in features /\ ~Exists(omp_lib_dir),
                   <<Warning("omp_lib_dir_path", omp_lib_dir)>>)
             \o SeqIf("tbb" \in features /\ ~Exists(tbb_lib_dir),
                      <<Warning("tbb_lib_dir_path", tbb_lib_dir)>>)
             \o SeqIf(~Exists(mkl_include_dir),
                      <<Warning("mkl_include_dir_path", mkl_include_dir)>>))

try_custom(mkl_lib_dir, mkl_include_dir, tbb_lib_dir, omp_lib_dir) ==
    LET lib_dir_str == ToStr(mkl_lib_dir)
        omp_lib_dir_str == ToStr(omp_lib_dir)
        tbb_lib_dir_str == ToStr(tbb_lib_dir)
        mkl_include_dir_str == ToStr(mkl_include_dir)
    IN  IF lib_dir_str = None
        THEN Ret(Err("Unable to convert 'mkl_lib_dir_path' to string"), <<>>)
        ELSE IF omp_lib_dir_str = None
        THEN Ret(Err("Unable to convert 'omp_lib_dir_path' to string"), <<>>)
        ELSE IF tbb_lib_dir_str = None
        THEN Ret(Err("Unable to convert 'tbb_lib_dir_path' to string"), <<>>)
        ELSE IF mkl_include_dir_str = None
        THEN Ret(Err("Unable to convert 'mkl_include_dir_path' to string"), <<>>)
        ELSE Ret(Ok(InstallationDirectories(lib_dir_str[1], omp_lib_dir_str[1],
                                            tbb_lib_dir_str[1], mkl_include_dir_str[1])),
                 SeqIf(~Exists(mkl_lib_dir),
                       <<Warning("mkl_lib_dir_path", lib_dir_str[1])>>)
                 \o SeqIf("openmp" \in features /\ ~Exists(omp_lib_dir),
                          <<Warning("omp_lib_dir_path", omp_lib_dir_str[1])>>)
                 \o SeqIf("tbb" \in features /\ ~Exists(tbb_lib_dir),
                          <<Warning("tbb_lib_dir_path", tbb_lib_dir_str[1])>>)
                 \o SeqIf(~Exists(mkl_include_dir),
                          <<Warning("mkl_include_dir_path", mkl_include_dir_str[1])>>))

try_from_root(root) ==
    LET itype == "intel64"
        tbb_lib_subdir == IF target_os = "linux" THEN "/" \o itype \o "/gcc4.8"
                          ELSE IF target_os = "windows" THEN "/" \o itype \o "/vc14"
                          ELSE ""
        tbb_root == root \o "/tbb/latest"
        mkl_root == root \o "/mkl/latest"
        compiler_root == root \o "/compiler/latest"
        mkl_lib_dir == mkl_root \o "/lib"
        tbb_lib_dir == tbb_root \o "/lib" \o tbb_lib_subdir
        omp_lib_dir == compiler_root \o "/lib"
        include_dir == mkl_root \o "/include"
        mkl_root_str == ToStr(mkl_root)
    IN  IF mkl_root_str = None
        THEN Ret(Err("Unable to convert 'mkl_root' to string"), <<>>)
        ELSE LET r == try_custom(mkl_lib_dir, include_dir, tbb_lib_dir, omp_lib_dir)
             IN  Ret(r.res,
                     SeqIf(~Exists(mkl_root), <<Warning("mkl_root", mkl_root_str[1])>>)
                     \o r.printed)

try_from_env_root ==
    LET v == EnvVar("ONEAPI_ROOT")
    IN  IF ~v.ok
        THEN Ret(Err("ONEAPI_ROOT " \o v.err
                     \o " -- remember to run the setvars script bundled with oneAPI"
                     \o " in order to set up the required environment variables"),
                 <<>>)
        ELSE try_from_root(v.val)

try_system ==
    IF target_os # "linux"
    THEN Ret(Err("Cannot determine default MKL installation path in target OS"), <<>>)
    ELSE LET mkl_lib_dir == "/lib/x86_64-linux-gnu"
             tbb_lib_dir == mkl_lib_dir
             omp_lib_dir == mkl_lib_dir
             include_dir == "/usr/include/mkl"
         IN  try_custom(mkl_lib_dir, include_dir, tbb_lib_dir, omp_lib_dir)

try_custom_env ==
    LET mkl_lib_dir == EnvVar("MKL_LIB_DIR")
        mkl_include_dir == EnvVar("MKL_INCLUDE_DIR")
        tbb_lib_dir == IF "tbb" \in features THEN EnvVar("TBB_LIB_DIR") ELSE Ok("")
        omp_lib_dir == IF "openmp" \in features THEN EnvVar("OMP_LIB_DIR") ELSE Ok("")
    IN  IF ~mkl_lib_dir.ok THEN Ret(Err("MKL_LIB_DIR " \o mkl_lib_dir.err), <<>>)
        ELSE IF ~mkl_include_dir.ok
        THEN Ret(Err("MKL_INCLUDE_DIR " \o mkl_include_dir.err), <<>>)
        ELSE IF ~tbb_lib_dir.ok THEN Ret(Err("TBB_LIB_DIR " \o tbb_lib_dir.err), <<>>)
        ELSE IF ~omp_lib_dir.ok THEN Ret(Err("OMP_LIB_DIR " \o omp_lib_dir.err), <<>>)
        ELSE try_custom(mkl_lib_dir.val, mkl_include_dir.val, tbb_lib_dir.val,
                        omp_lib_dir.val)


-----------------------------------------------------------------------------
(* Link libraries and compiler flags *)

\* get_lib_dirs with `if` in place of `else if`
get_lib_dirs_both(dirs) ==
    <<dirs.mkl_lib_dir>>
    \o SeqIf("openmp" \in features, <<dirs.omp_lib_dir>>)
    \o SeqIf("tbb" \in features, <<dirs.tbb_lib_dir>>)

get_lib_dirs(dirs) ==
    <<dirs.mkl_lib_dir>>
    \o (IF "openmp" \in features THEN <<dirs.omp_lib_dir>>
        ELSE IF "tbb" \in features THEN <<dirs.tbb_lib_dir>>
        ELSE <<>>)

get_dynamic_link_libs_windows == SeqIf("tbb" \in features, <<"tbb">>)

get_dynamic_link_libs_linux ==
    (IF "openmp" \in features THEN <<"iomp5">>
     ELSE IF "tbb" \in features THEN <<"tbb">>
     ELSE <<>>)
    \o <<"pthread", "m", "dl", "stdc++">>

get_dynamic_link_libs_macos ==
    SeqIf("openmp" \in features, <<"iomp5">>) \o <<"pthread", "m", "dl">>

get_static_link_libs_windows ==
    (IF "ilp64" \in features THEN <<"mkl_intel_ilp64">> ELSE <<"mkl_intel_lp64">>)
    \o (IF "openmp" \in features THEN <<"mkl_intel_thread">>
        ELSE IF "tbb" \in features THEN <<"mkl_tbb_thread">>
        ELSE <<"mkl_sequential">>)
    \o <<"mkl_core">>
    \o SeqIf("openmp" \in features, <<"libiomp5md">>)

\* get_static_link_libs_macos with the threading layer pushed first
get_static_link_libs_macos_reordered ==
    (IF "openmp" \in features THEN <<"mkl_intel_thread">>
     ELSE IF "tbb" \in features THEN <<"mkl_tbb_thread">>
     ELSE <<"mkl_sequential">>)
    \o (IF "ilp64" \in features THEN <<"mkl_intel_ilp64">> ELSE <<"mkl_intel_lp64">>)
    \o <<"mkl_core">>

get_static_link_libs_macos ==
    (IF "ilp64" \in features THEN <<"mkl_intel_ilp64">> ELSE <<"mkl_intel_lp64">>)
    \o (IF "openmp" \in features THEN <<"mkl_intel_thread">>
        ELSE IF "tbb" \in features THEN <<"mkl_tbb_thread">>
        ELSE <<"mkl_sequential">>)
    \o <<"mkl_core">>

get_static_link_libs_linux ==
    (IF "ilp64" \in features THEN <<"mkl_intel_ilp64">> ELSE <<"mkl_intel_lp64">>)
    \o (IF "openmp" \in features THEN <<"mkl_intel_thread">>
        ELSE IF "tbb" \in features THEN <<"mkl_tbb_thread">>
        ELSE <<"mkl_sequential">>)
    \o <<"mkl_core">>

get_dynamic_link_libs ==
    IF target_os = "windows" THEN Returns(get_dynamic_link_libs_windows)
    ELSE IF target_os = "linux" THEN Returns(get_dynamic_link_libs_linux)
    ELSE IF target_os = "macos" THEN Returns(get_dynamic_link_libs_macos)
    ELSE Panics("Target OS not supported")

get_static_link_libs ==
    IF target_os = "windows" THEN Returns(get_static_link_libs_windows)
    ELSE IF target_os = "linux" THEN Returns(get_static_link_libs_linux)
    ELSE IF target_os = "macos" THEN Returns(get_static_link_libs_macos)
    ELSE Panics("Target OS not supported")

\* get_cflags_windows without the ilp64 definition
get_cflags_windows_no_define(install) ==
    IF install # None THEN <<"--include-directory", install[1].include_dir>> ELSE <<>>

\* install is Option<&InstallationDirectories>
get_cflags_windows(install) ==
    SeqIf("ilp64" \in features, <<"-DMKL_ILP64">>)
    \o (IF install # None THEN <<"--include-directory", install[1].include_dir>>
        ELSE <<>>)

get_cflags_linux(install) ==
    SeqIf("ilp64" \in features, <<"-DMKL_ILP64">>)
    \o (IF install # None THEN <<"-I", install[1].include_dir>>
        ELSE <<"-I", "/usr/include/mkl">>)

get_cflags_macos(install) ==
    SeqIf("ilp64" \in features, <<"-DMKL_ILP64">>)
    \o (IF install # None THEN <<"-I", install[1].include_dir>> ELSE <<>>)

get_cflags(install) ==
    IF target_os = "windows" THEN Returns(get_cflags_windows(install))
    ELSE IF target_os = "linux" THEN Returns(get_cflags_linux(install))
    ELSE IF target_os = "macos" THEN Returns(get_cflags_macos(install))
    ELSE Panics("Target OS not supported")

-----------------------------------------------------------------------------
(* Callbacks::int_macro *)

\* the end of the range in &name[..4]
PrefixLen == 4

\* A macro name is a sequence of characters; every character is one byte in
\* UTF-8 except "é", which is two.
Chars == {"M", "K", "L", "_", "é"}

Utf8Width(c) == IF c = "é" THEN 2 ELSE 1

RECURSIVE Utf8Len(_)
Utf8Len(name) == IF name = <<>> THEN 0 ELSE Utf8Width(Head(name)) + Utf8Len(Tail(name))

\* str::is_char_boundary(n): n is the byte length of a prefix of whole characters
IsCharBoundary(name, n) == \E k \in 0..Len(name) : Utf8Len(SubSeq(name, 1, k)) = n

\* &name[..n]: panics when n is past the end or not on a character boundary
SliceTo(name, n) ==
    IF IsCharBoundary(name, n)
    THEN Returns(SubSeq(name, 1,
                        CHOOSE k \in 0..Len(name) : Utf8Len(SubSeq(name, 1, k)) = n))
    ELSE Panics("byte index is out of bounds or not a char boundary")

int_macro(name, value) ==
    LET prefix == SliceTo(name, PrefixLen)
    IN  IF prefix.panic # "" THEN Panics(prefix.panic)
        ELSE IF prefix.val = <<"M", "K", "L", "_">>
        THEN IF "ilp64" \in features THEN Returns(Some("I64")) ELSE Returns(Some("I32"))
        ELSE Returns(None)

-----------------------------------------------------------------------------
(* main: the allowlist *)

AxpyPatterns == << <<"function", "daxpy">>, <<"function", "cblas_daxpy">> >>

dss_regex == "(dss_.*)|(DSS_.*)|(MKL_DSS.*)"

DssPatterns == << <<"function", dss_regex>>, <<"type", dss_regex>>, <<"var", dss_regex>> >>

SparseMatrixCheckerPatterns ==
    << <<"function", "sparse_matrix_checker*">>,
       <<"function", "sparse_matrix_checker_init*">> >>

ExtendedEigensolverPatterns ==
    << <<"function", ".*feast.*">>, <<"function", "mkl_sparse_ee_init">>,
       <<"function", "mkl_sparse_._svd">>, <<"function", "mkl_sparse_._ev">>,
       <<"function", "mkl_sparse_._gv">> >>

InspectorExecutorPatterns == << <<"function", "mkl_sparse_.*">> >>

\* the allowlist block without its #[cfg(not(feature = "all"))]
AllowlistPatterns_no_override ==
    SeqIf("axpy" \in features, AxpyPatterns)
    \o SeqIf("dss" \in features, DssPatterns)
    \o SeqIf("sparse-matrix-checker" \in features, SparseMatrixCheckerPatterns)
    \o SeqIf("extended-eigensolver" \in features, ExtendedEigensolverPatterns)
    \o SeqIf("inspector-executor" \in features, InspectorExecutorPatterns)

\* the #[cfg(not(feature = "all"))] block of main
AllowlistPatterns ==
    IF "all" \in features THEN <<>>
    ELSE SeqIf("axpy" \in features, AxpyPatterns)
         \o SeqIf("dss" \in features, DssPatterns)
         \o SeqIf("sparse-matrix-checker" \in features, SparseMatrixCheckerPatterns)
         \o SeqIf("extended-eigensolver" \in features, ExtendedEigensolverPatterns)
         \o SeqIf("inspector-executor" \in features, InspectorExecutorPatterns)

\* the module check with inspector-executor left out of the list
AnyModuleSelected_short ==
    \/ "all" \in features
    \/ "dss" \in features
    \/ "axpy" \in features
    \/ "sparse-matrix-checker" \in features
    \/ "extended-eigensolver" \in features

\* cfg!(any(feature = "all", feature = "dss", ...)) at the top of main
AnyModuleSelected ==
    \/ "all" \in features
    \/ "dss" \in features
    \/ "axpy" \in features
    \/ "sparse-matrix-checker" \in features
    \/ "extended-eigensolver" \in features
    \/ "inspector-executor" \in features

-----------------------------------------------------------------------------
(* main, statement by statement *)

NoModulesMsg == "No MKL modules selected."

Panic(msg) == /\ pc' = "panicked"
              /\ panic' = msg

\* the lines main prints for one resolution strategy: what the strategy printed,
\* then .map_err(|err| println!("WARNING: {}", err))
StrategyLines(r) == r.printed \o SeqIf(~r.res.ok, <<Line("WARNING", r.res.err)>>)

\* .ok(): Result -> Option
OkOf(res) == IF res.ok THEN Some(res.val) ELSE None

\* if cfg!(not(any(feature = "all", ...))) { panic!(..) }
CheckModules ==
    /\ pc = "main"
    /\ IF ~AnyModuleSelected
       THEN Panic(NoModulesMsg)
       ELSE pc' = "try_custom_env" /\ UNCHANGED panic
    /\ UNCHANGED <<features, target_os, env, fs, header, attempts, install_dirs,
                   out, clang_args, allowlist, macro_calls>>

\* main with .or(..) in place of the first .or_else(..): try_from_env_root is
\* called whether or not try_custom_env succeeded
TryCustomEnv_eager ==
    /\ pc = "try_custom_env"
    /\ LET r == try_custom_env
       IN  /\ attempts' = Append(attempts, [strategy |-> "try_custom_env", res |-> r.res,
                                         printed |-> r.printed])
           /\ out' = out \o StrategyLines(r)
           /\ install_dirs' = OkOf(r.res)
           /\ pc' = "try_from_env_root"
    /\ UNCHANGED <<features, target_os, env, fs, header, clang_args, allowlist,
                   macro_calls, panic>>

\* InstallationDirectories::try_custom_env().map_err(..).ok()
TryCustomEnv ==
    /\ pc = "try_custom_env"
    /\ LET r == try_custom_env
       IN  /\ attempts' = Append(attempts, [strategy |-> "try_custom_env", res |-> r.res,
                                         printed |-> r.printed])
           /\ out' = out \o StrategyLines(r)
           /\ install_dirs' = OkOf(r.res)
           /\ pc' = IF r.res.ok THEN "link_search" ELSE "try_from_env_root"
    /\ UNCHANGED <<features, target_os, env, fs, header, clang_args, allowlist,
                   macro_calls, panic>>

\* .or_else(|| InstallationDirectories::try_from_env_root().map_err(..).ok())
TryFromEnvRoot ==
    /\ pc = "try_from_env_root"
    /\ LET r == try_from_env_root
       IN  /\ attempts' = Append(attempts, [strategy |-> "try_from_env_root", res |-> r.res,
                                         printed |-> r.printed])
           /\ out' = out \o StrategyLines(r)
           /\ install_dirs' = OkOf(r.res)
           /\ pc' = IF r.res.ok THEN "link_search" ELSE "try_system"
    /\ UNCHANGED <<features, target_os, env, fs, header, clang_args, allowlist,
                   macro_calls, panic>>

\* .or_else(|| InstallationDirectories::try_system().map_err(..).ok())
TrySystem ==
    /\ pc = "try_system"
    /\ LET r == try_system
       IN  /\ attempts' = Append(attempts, [strategy |-> "try_system", res |-> r.res,
                                         printed |-> r.printed])
           /\ out' = out \o StrategyLines(r)
           /\ install_dirs' = OkOf(r.res)
           /\ pc' = "link_search"
    /\ UNCHANGED <<features, target_os, env, fs, header, clang_args, allowlist,
                   macro_calls, panic>>

LinkSearchLines(dirs) ==
    [i \in 1..Len(dirs) |-> Line("cargo:rustc-link-search=native", dirs[i])]

\* if let Some(install_dirs) = install_dirs.as_ref() { for lib_dir in get_lib_dirs(..) {..} }
EmitLinkSearch ==
    /\ pc = "link_search"
    /\ out' = out \o (IF install_dirs # None
                      THEN LinkSearchLines(get_lib_dirs(install_dirs[1]))
                      ELSE <<>>)
    /\ pc' = "link_static"
    /\ UNCHANGED <<features, target_os, env, fs, header, attempts, install_dirs,
                   clang_args, allowlist, macro_calls, panic>>

StaticLibLines(libs) ==
    [i \in 1..Len(libs) |-> Line("cargo:rustc-link-lib=static", libs[i])]

\* for lib in get_static_link_libs() { println!("cargo:rustc-link-lib=static={}", lib); }
EmitStaticLibs ==
    /\ pc = "link_static"
    /\ LET libs == get_static_link_libs
       IN  IF libs.panic # ""
           THEN Panic(libs.panic) /\ UNCHANGED out
           ELSE /\ out' = out \o StaticLibLines(libs.val)
                /\ pc' = "link_dynamic"
                /\ UNCHANGED panic
    /\ UNCHANGED <<features, target_os, env, fs, header, attempts, install_dirs,
                   clang_args, allowlist, macro_calls>>

DynamicLibLines(libs) ==
    [i \in 1..Len(libs) |-> Line("cargo:rustc-link-lib", libs[i])]

\* for lib in get_dynamic_link_libs() { println!("cargo:rustc-link-lib={}", lib); }
EmitDynamicLibs ==
    /\ pc = "link_dynamic"
    /\ LET libs == get_dynamic_link_libs
       IN  IF libs.panic # ""
           THEN Panic(libs.panic) /\ UNCHANGED out
           ELSE /\ out' = out \o DynamicLibLines(libs.val)
                /\ pc' = "cflags"
                /\ UNCHANGED panic
    /\ UNCHANGED <<features, target_os, env, fs, header, attempts, install_dirs,
                   clang_args, allowlist, macro_calls>>

\* let args = get_cflags(install_dirs.as_ref()); args
GetCflags ==
    /\ pc = "cflags"
    /\ LET args == get_cflags(install_dirs)
       IN  IF args.panic # ""
           THEN Panic(args.panic) /\ UNCHANGED clang_args
           ELSE /\ clang_args' = args.val
                /\ pc' = "allowlist"
                /\ UNCHANGED panic
    /\ UNCHANGED <<features, target_os, env, fs, header, attempts, install_dirs,
                   out, allowlist, macro_calls>>

\* the builder and its allowlist_function / allowlist_type / allowlist_var calls
BuildAllowlist ==
    /\ pc = "allowlist"
    /\ allowlist' = AllowlistPatterns
    /\ pc' = "generate"
    /\ UNCHANGED <<features, target_os, env, fs, header, attempts, install_dirs,
                   out, clang_args, macro_calls, panic>>

\* builder.generate(): the generator passes the header's integer macro to
\* Callbacks::int_macro; a panic in the callback ends main
Generate ==
    /\ pc = "generate"
    /\ LET r == int_macro(header.name, header.value)
       IN  /\ macro_calls' = Append(macro_calls,
                                    [name |-> header.name, value |-> header.value, ret |-> r])
           /\ IF r.panic # ""
              THEN Panic(r.panic)
              ELSE pc' = "write" /\ UNCHANGED panic
    /\ UNCHANGED <<features, target_os, env, fs, header, attempts, install_dirs,
                   out, clang_args, allowlist>>

\* bindings.write_to_file(out_path.join("bindings.rs"))
WriteBindings ==
    /\ pc = "write"
    /\ pc' = "done"
    /\ UNCHANGED <<features, target_os, env, fs, header, attempts, install_dirs,
                   out, clang_args, allowlist, macro_calls, panic>>

Next ==
    \/ CheckModules
    \/ TryCustomEnv
    \/ TryFromEnvRoot
    \/ TrySystem
    \/ EmitLinkSearch
    \/ EmitStaticLibs
    \/ EmitDynamicLibs
    \/ GetCflags
    \/ BuildAllowlist
    \/ Generate
    \/ WriteBindings

-----------------------------------------------------------------------------
(* Initial states: the inputs of one build *)

\* the state of main's locals when main starts
InitMain ==
    /\ pc = "main"
    /\ attempts = <<>>
    /\ install_dirs = None
    /\ out = <<>>
    /\ clang_args = <<>>
    /\ allowlist = <<>>
    /\ macro_calls = <<>>
    /\ panic = ""

Unset == [v \in EnvVars |-> Err(NotPresent)]

\* A few environments: nothing set; the custom directories set; the custom
\* directories set with an include directory that reads like a compiler flag;
\* only ONEAPI_ROOT set
EnvSmall ==
    { Unset,
      [Unset EXCEPT !["MKL_LIB_DIR"] = Ok("/opt/mkl/lib"),
                    !["MKL_INCLUDE_DIR"] = Ok("/opt/mkl/include"),
                    !["TBB_LIB_DIR"] = Ok("/opt/tbb/lib"),
                    !["OMP_LIB_DIR"] = Ok("/opt/omp/lib")],
      [Unset EXCEPT !["MKL_LIB_DIR"] = Ok("/opt/mkl/lib"),
                    !["MKL_INCLUDE_DIR"] = Ok("-DMKL_ILP64"),
                    !["TBB_LIB_DIR"] = Ok("/opt/mkl/lib"),
                    !["OMP_LIB_DIR"] = Ok("/opt/mkl/lib")],
      [Unset EXCEPT !["ONEAPI_ROOT"] = Ok("/opt/intel/oneapi")] }

\* Every variable unset, not unicode (ONEAPI_ROOT), or set to one of a few paths
EnvAll ==
    { [v \in EnvVars |->
         CASE v = "MKL_LIB_DIR" -> lib
           [] v = "MKL_INCLUDE_DIR" -> inc
           [] v = "TBB_LIB_DIR" -> tbb
           [] v = "OMP_LIB_DIR" -> omp
           [] OTHER -> root] :
      lib \in {Err(NotPresent), Ok("/opt/mkl/lib")},
      inc \in {Err(NotPresent), Ok("/opt/mkl/include"), Ok("-DMKL_ILP64")},
      tbb \in {Err(NotPresent), Ok("/opt/mkl/lib"), Ok("/opt/tbb/lib")},
      omp \in {Err(NotPresent), Ok("/opt/mkl/lib"), Ok("/opt/omp/lib")},
      root \in {Err(NotPresent), Err(NotUnicode), Ok("/opt/intel/oneapi")} }

\* A few file systems: nothing exists; the library directories exist; the
\* include directories exist; the threading directories exist
FsChoices ==
    { {},
      {"/opt/mkl/lib", "/opt/intel/oneapi/mkl/latest/lib", "/lib/x86_64-linux-gnu",
       "/opt/intel/oneapi/mkl/latest"},
      {"/opt/mkl/include", "/opt/intel/oneapi/mkl/latest/include", "/usr/include/mkl"},
      {"/opt/mkl/lib", "/opt/mkl/include", "/opt/tbb/lib", "/opt/omp/lib",
       "/opt/intel/oneapi/compiler/latest/lib", "/opt/intel/oneapi/tbb/latest/lib",
       "/opt/intel/oneapi/tbb/latest/lib/intel64/gcc4.8",
       "/opt/intel/oneapi/tbb/latest/lib/intel64/vc14"} }

RECURSIVE NamesOfLen(_)
NamesOfLen(n) ==
    IF n = 0 THEN {<<>>}
    ELSE {Append(s, c) : s \in NamesOfLen(n - 1), c \in Chars}

\* a macro name is an identifier: at least one character
MacroNames == UNION {NamesOfLen(n) : n \in 1..MaxNameLen}

MKL_M == <<"M", "K", "L", "_", "M">>

\* Every feature combination on every target, a few environments
Init ==
    /\ features \in SUBSET Features
    /\ target_os \in TargetOSes
    /\ env \in EnvSmall
    /\ fs = {}
    /\ header \in {[name |-> MKL_M, value |-> 1], [name |-> <<"L", "K", "M", "_", "M">>, value |-> 1]}
    /\ InitMain

\* Every environment and a few file systems, the threading features on every target
InitEnv ==
    /\ features \in {{"all"} \cup t : t \in SUBSET {"openmp", "tbb"}}
    /\ target_os \in TargetOSes
    /\ env \in EnvAll
    /\ fs \in FsChoices
    /\ header = [name |-> MKL_M, value |-> 1]
    /\ InitMain

\* Every macro name up to MaxNameLen characters, with and without ilp64
InitMacro ==
    /\ features \in {{"all"}, {"all", "ilp64"}}
    /\ target_os = "linux"
    /\ env = Unset
    /\ fs = {}
    /\ header \in [name : MacroNames, value : {-1, 0, 2147483647}]
    /\ InitMain

Spec == Init /\ [][Next]_vars

SpecEnv == InitEnv /\ [][Next]_vars

SpecMacro == InitMacro /\ [][Next]_vars

-----------------------------------------------------------------------------
(* Reading the state *)

Range(seq) == {seq[i] : i \in 1..Len(seq)}

IsLinkSearch(l) == l.d = "cargo:rustc-link-search=native"
IsStaticLib(l) == l.d = "cargo:rustc-link-lib=static"
IsDynamicLib(l) == l.d = "cargo:rustc-link-lib"
IsDirective(l) == IsLinkSearch(l) \/ IsStaticLib(l) \/ IsDynamicLib(l)

Values(lines) == [i \in 1..Len(lines) |-> lines[i].v]

SearchPath == Values(SelectSeq(out, IsLinkSearch))
StaticLinked == Values(SelectSeq(out, IsStaticLib))
DynamicLinked == Values(SelectSeq(out, IsDynamicLib))
Linked == Range(StaticLinked) \cup Range(DynamicLinked)

Supported == target_os \in {"windows", "linux", "macos"}

\* main is past the module check: it did not stop with the module panic
PastModuleCheck == pc \notin {"main"} /\ panic # NoModulesMsg

\* main is past the resolution of the installation directories
Resolved ==
    /\ PastModuleCheck
    /\ pc \notin {"try_custom_env", "try_from_env_root", "try_system"}

\* main has emitted the static, and then the dynamic, link libraries
StaticEmitted ==
    \/ pc \in {"link_dynamic", "cflags", "allowlist", "generate", "write", "done"}
    \/ macro_calls # <<>>

DynamicEmitted ==
    \/ pc \in {"cflags", "allowlist", "generate", "write", "done"}
    \/ macro_calls # <<>>

\* main has computed clang_args, and then the allowlist
CflagsDone == pc \in {"allowlist", "generate", "write", "done"} \/ macro_calls # <<>>
AllowlistDone == pc \in {"generate", "write", "done"} \/ macro_calls # <<>>

-----------------------------------------------------------------------------
(* C1 *)

StrategyOrder == <<"try_custom_env", "try_from_env_root", "try_system">>

\* What the first strategy of StrategyOrder that returns Ok returns, None if none does
FirstOk ==
    IF try_custom_env.res.ok THEN Some(try_custom_env.res.val)
    ELSE IF try_from_env_root.res.ok THEN Some(try_from_env_root.res.val)
    ELSE IF try_system.res.ok THEN Some(try_system.res.val)
    ELSE None

\* C1: the strategies are attempted in the order try_custom_env, try_from_env_root,
\* try_system, none twice; a strategy is attempted only if every earlier one
\* returned Err, so none is attempted after a success; once resolution is over
\* the directories used are those of the first strategy that returned Ok (none
\* if all three returned Err, and then all three were attempted).
ResolutionOrder ==
    /\ Len(attempts) <= Len(StrategyOrder)
    /\ \A i \in 1..Len(attempts) :
         /\ attempts[i].strategy = StrategyOrder[i]
         /\ \A j \in 1..(i - 1) : ~attempts[j].res.ok
    /\ Resolved =>
         /\ install_dirs = FirstOk
         /\ attempts # <<>>
         /\ IF attempts[Len(attempts)].res.ok
            THEN install_dirs = Some(attempts[Len(attempts)].res.val)
            ELSE Len(attempts) = Len(StrategyOrder) /\ install_dirs = None

\* try_custom_env failed, try_from_env_root succeeded and its directories were
\* used to the end of main
ResolutionOrderWitness ==
    /\ pc = "done"
    /\ Len(attempts) = 2
    /\ ~attempts[1].res.ok
    /\ attempts[2].res.ok
    /\ install_dirs = Some(attempts[2].res.val)

-----------------------------------------------------------------------------
(* C2 *)

\* The four strings a strategy passes to try_custom, as
\* [mkl_lib_dir, include_dir, tbb_lib_dir, omp_lib_dir]; the strategy reaches
\* try_custom only when `reaches` holds
CustomArgs(strategy) ==
    CASE strategy = "try_custom_env" ->
           [reaches |-> /\ env["MKL_LIB_DIR"].ok
                        /\ env["MKL_INCLUDE_DIR"].ok
                        /\ ("tbb" \in features => env["TBB_LIB_DIR"].ok)
                        /\ ("openmp" \in features => env["OMP_LIB_DIR"].ok),
            mkl_lib_dir |-> env["MKL_LIB_DIR"],
            include_dir |-> env["MKL_INCLUDE_DIR"],
            tbb_lib_dir |-> IF "tbb" \in features THEN env["TBB_LIB_DIR"] ELSE Ok(""),
            omp_lib_dir |-> IF "openmp" \in features THEN env["OMP_LIB_DIR"] ELSE Ok("")]
      [] strategy = "try_from_env_root" ->
           LET root == IF env["ONEAPI_ROOT"].ok THEN env["ONEAPI_ROOT"].val ELSE ""
           IN  [reaches |-> env["ONEAPI_ROOT"].ok,
                mkl_lib_dir |-> Ok(root \o "/mkl/latest/lib"),
                include_dir |-> Ok(root \o "/mkl/latest/include"),
                tbb_lib_dir |-> Ok(root \o "/tbb/latest/lib"
                                   \o (CASE target_os = "linux" -> "/intel64/gcc4.8"
                                         [] target_os = "windows" -> "/intel64/vc14"
                                         [] OTHER -> "")),
                omp_lib_dir |-> Ok(root \o "/compiler/latest/lib")]
      [] OTHER ->
           [reaches |-> target_os = "linux",
            mkl_lib_dir |-> Ok("/lib/x86_64-linux-gnu"),
            include_dir |-> Ok("/usr/include/mkl"),
            tbb_lib_dir |-> Ok("/lib/x86_64-linux-gnu"),
            omp_lib_dir |-> Ok("/lib/x86_64-linux-gnu")]

SetIf(cond, x) == IF cond THEN {x} ELSE {}

\* The cargo:warning lines try_custom owes for the directories dirs
MissingWarnings(dirs) ==
    SetIf(dirs.mkl_lib_dir \notin fs, Warning("mkl_lib_dir_path", dirs.mkl_lib_dir))
    \cup SetIf(dirs.include_dir \notin fs,
               Warning("mkl_include_dir_path", dirs.include_dir))
    \cup SetIf("openmp" \in features /\ dirs.omp_lib_dir \notin fs,
               Warning("omp_lib_dir_path", dirs.omp_lib_dir))
    \cup SetIf("tbb" \in features /\ dirs.tbb_lib_dir \notin fs,
               Warning("tbb_lib_dir_path", dirs.tbb_lib_dir))

\* The lines of try_custom among those a strategy printed: all but the
\* 'mkl_root' warning of try_from_root
CustomPrinted(printed) ==
    {l \in Range(printed) :
       ~(env["ONEAPI_ROOT"].ok
         /\ l = Warning("mkl_root", env["ONEAPI_ROOT"].val \o "/mkl/latest"))}

\* C2: a directory that does not exist is a warning, not an error: every
\* strategy that reaches try_custom returns Ok, whether or not the paths exist,
\* with the four path strings it passed stored unchanged; the cargo:warning
\* lines printed are exactly one for each of mkl_lib_dir and include_dir that
\* does not exist, and one for omp_lib_dir / tbb_lib_dir only when the openmp /
\* tbb feature is enabled and that directory does not exist.
MissingDirIsWarning ==
    \A i \in 1..Len(attempts) :
      LET a == attempts[i]
          args == CustomArgs(a.strategy)
      IN  /\ a.res.ok <=> args.reaches
          /\ a.res.ok =>
               /\ a.res.val = [mkl_lib_dir |-> args.mkl_lib_dir.val,
                               omp_lib_dir |-> args.omp_lib_dir.val,
                               tbb_lib_dir |-> args.tbb_lib_dir.val,
                               include_dir |-> args.include_dir.val]
               /\ CustomPrinted(a.printed) = MissingWarnings(a.res.val)
               /\ Cardinality(Range(a.printed)) = Len(a.printed)
               /\ \A k \in 1..Len(a.printed) : a.printed[k].d = "cargo:warning"

\* try_custom returned Ok for a library directory that does not exist, warned
\* about it, and did not warn about the tbb directory, which does not exist
\* either, because the tbb feature is off
MissingDirIsWarningWitness ==
    /\ pc = "done"
    /\ install_dirs # None
    /\ "tbb" \notin features
    /\ install_dirs[1].mkl_lib_dir \notin fs
    /\ install_dirs[1].tbb_lib_dir \notin fs
    /\ install_dirs[1].tbb_lib_dir # ""
    /\ Warning("mkl_lib_dir_path", install_dirs[1].mkl_lib_dir) \in Range(out)
    /\ Warning("tbb_lib_dir_path", install_dirs[1].tbb_lib_dir) \notin Range(out)

-----------------------------------------------------------------------------
(* C3 *)

\* C3: with none of the module features enabled main panics with the 'No MKL
\* modules selected' message at its first statement: no strategy has been
\* attempted, no directory resolved and no line printed; with at least one
\* module feature enabled that panic does not occur.
NoModulesPanic ==
    /\ features \cap ModuleFeatures = {} =>
         /\ pc \in {"main", "panicked"}
         /\ pc = "panicked" => panic = NoModulesMsg
         /\ attempts = <<>>
         /\ install_dirs = None
         /\ out = <<>>
    /\ features \cap ModuleFeatures # {} => panic # NoModulesMsg

\* main panicked for want of a module feature, with other features enabled
NoModulesPanicWitness ==
    /\ pc = "panicked"
    /\ panic = NoModulesMsg
    /\ features = {"ilp64", "openmp", "tbb"}

-----------------------------------------------------------------------------
(* C4 *)

ILP64Define == "-DMKL_ILP64"

\* flag is among args as an option of its own, not as the argument of an
\* include option
HasOption(args, flag) ==
    \E i \in 1..Len(args) :
      /\ args[i] = flag
      /\ i > 1 => args[i - 1] \notin {"-I", "--include-directory"}

StartsWithMKL(name) == Len(name) >= 4 /\ SubSeq(name, 1, 4) = <<"M", "K", "L", "_">>

\* C4: in every output of a build the integer width follows the ilp64 feature:
\* the static libraries emitted hold mkl_intel_ilp64 if ilp64 is enabled and
\* mkl_intel_lp64 otherwise, never both; clang_args hold the -DMKL_ILP64 option
\* exactly when ilp64 is enabled; int_macro types a 'MKL_' constant as I64 when
\* ilp64 is enabled and as I32 otherwise.
IntegerWidthConsistent ==
    /\ StaticEmitted =>
         /\ "ilp64" \in features <=> "mkl_intel_ilp64" \in Range(StaticLinked)
         /\ "ilp64" \notin features <=> "mkl_intel_lp64" \in Range(StaticLinked)
    /\ CflagsDone => ("ilp64" \in features <=> HasOption(clang_args, ILP64Define))
    /\ \A i \in 1..Len(macro_calls) :
         StartsWithMKL(macro_calls[i].name) =>
           /\ "ilp64" \in features <=> macro_calls[i].ret = Returns(Some("I64"))
           /\ "ilp64" \notin features <=> macro_calls[i].ret = Returns(Some("I32"))

\* a windows build with ilp64 that ran to the end and typed a MKL_ constant
IntegerWidthConsistentWitness ==
    /\ pc = "done"
    /\ target_os = "windows"
    /\ "ilp64" \in features
    /\ "mkl_intel_ilp64" \in Range(StaticLinked)
    /\ HasOption(clang_args, ILP64Define)
    /\ macro_calls # <<>>
    /\ macro_calls[1].ret = Returns(Some("I64"))

-----------------------------------------------------------------------------
(* C5 *)

PatternGroup(f) ==
    CASE f = "axpy" -> Range(AxpyPatterns)
      [] f = "dss" -> Range(DssPatterns)
      [] f = "sparse-matrix-checker" -> Range(SparseMatrixCheckerPatterns)
      [] f = "extended-eigensolver" -> Range(ExtendedEigensolverPatterns)
      [] f = "inspector-executor" -> Range(InspectorExecutorPatterns)
      [] OTHER -> {}

\* C5: with the all feature enabled no allowlist pattern is added, whatever
\* other module features are enabled; with all disabled the patterns added are
\* exactly the union of the pattern groups of the enabled module features, and
\* hold no pattern of a disabled module feature.
AllowlistOverride ==
    AllowlistDone =>
      IF "all" \in features
      THEN allowlist = <<>>
      ELSE /\ Range(allowlist) = UNION {PatternGroup(f) : f \in features \cap ModuleFeatures}
           /\ \A f \in ModuleFeatures \ features : Range(allowlist) \cap PatternGroup(f) = {}

\* all is enabled together with two module features, and nothing was allowlisted
AllowlistOverrideWitness ==
    /\ pc = "done"
    /\ {"all", "dss", "axpy"} \subseteq features
    /\ allowlist = <<>>

-----------------------------------------------------------------------------
(* C6 *)

Directives == SelectSeq(out, IsDirective)
LinkLibDirectives == SelectSeq(out, LAMBDA l : IsStaticLib(l) \/ IsDynamicLib(l))

NoDuplicate(seq) == \A i, j \in 1..Len(seq) : seq[i] = seq[j] => i = j

\* every link-search line precedes every static link-lib line, which precedes
\* every dynamic link-lib line
DirectiveOrder ==
    \A i, j \in 1..Len(out) :
      i < j => /\ ~(IsStaticLib(out[i]) /\ IsLinkSearch(out[j]))
               /\ ~(IsDynamicLib(out[i]) /\ IsLinkSearch(out[j]))
               /\ ~(IsDynamicLib(out[i]) /\ IsStaticLib(out[j]))

\* C6 as stated: no cargo:rustc-link-search or cargo:rustc-link-lib directive is
\* emitted more than once, and all link-search directives precede all static
\* link-lib directives, which precede all dynamic link-lib directives.
DirectivesEmittedOnce ==
    /\ NoDuplicate(Directives)
    /\ DirectiveOrder

\* the directory get_lib_dirs adds to mkl_lib_dir for the threading feature
ThreadingDir(dirs) == IF "openmp" \in features THEN dirs.omp_lib_dir ELSE dirs.tbb_lib_dir

\* C6 as amended: no cargo:rustc-link-lib directive is emitted more than once
\* and the order search, static, dynamic holds; at most two link-search
\* directives are emitted (none when no directory was resolved), and the two
\* are the same line only when the resolved threading directory (omp_lib_dir
\* with openmp, else tbb_lib_dir with tbb) equals mkl_lib_dir, as it always
\* does for try_system.
DirectivesEmittedOncePerEntry ==
    /\ NoDuplicate(LinkLibDirectives)
    /\ DirectiveOrder
    /\ Len(SearchPath) <= 2
    /\ install_dirs = None => SearchPath = <<>>
    /\ Len(SearchPath) = 2 =>
         /\ {"openmp", "tbb"} \cap features # {}
         /\ SearchPath[1] = SearchPath[2] =>
              install_dirs[1].mkl_lib_dir = ThreadingDir(install_dirs[1])
    /\ (StaticEmitted /\ install_dirs # None) => SearchPath # <<>>

\* try_system resolved the directories with tbb enabled: the same link-search
\* line was emitted twice, and main ran to the end
DirectivesEmittedOncePerEntryWitness ==
    /\ pc = "done"
    /\ Len(attempts) = 3
    /\ "tbb" \in features
    /\ Len(SearchPath) = 2
    /\ SearchPath[1] = SearchPath[2]
    /\ Len(LinkLibDirectives) >= 7

-----------------------------------------------------------------------------
(* C7 *)

ExpectedThreadingLayer ==
    IF "openmp" \in features THEN "mkl_intel_thread"
    ELSE IF "tbb" \in features THEN "mkl_tbb_thread"
    ELSE "mkl_sequential"

\* C7: on windows, linux and macos the static libraries main emits are those
\* get_static_link_libs returns: one interface library (mkl_intel_ilp64 or
\* mkl_intel_lp64), then the threading layer (mkl_intel_thread with openmp, else
\* mkl_tbb_thread with tbb, else mkl_sequential), then mkl_core, followed by
\* libiomp5md on windows with openmp and by nothing otherwise.  On any other
\* target get_static_link_libs, get_dynamic_link_libs and get_cflags panic with
\* 'Target OS not supported', and main stops there without a link-lib line.
StaticLibsShape ==
    IF Supported
    THEN /\ panic # "Target OS not supported"
         /\ StaticEmitted =>
              /\ StaticLinked = get_static_link_libs.val
              /\ Len(StaticLinked) \in {3, 4}
              /\ StaticLinked[1] \in {"mkl_intel_ilp64", "mkl_intel_lp64"}
              /\ StaticLinked[2] = ExpectedThreadingLayer
              /\ StaticLinked[3] = "mkl_core"
              /\ Len(StaticLinked) = 4 <=> (target_os = "windows" /\ "openmp" \in features)
              /\ Len(StaticLinked) = 4 => StaticLinked[4] = "libiomp5md"
    ELSE /\ get_static_link_libs = Panics("Target OS not supported")
         /\ get_dynamic_link_libs = Panics("Target OS not supported")
         /\ get_cflags(install_dirs) = Panics("Target OS not supported")
         /\ LinkLibDirectives = <<>>
         /\ ~StaticEmitted
         /\ pc = "panicked" => panic \in {NoModulesMsg, "Target OS not supported"}
         /\ pc \notin {"main", "try_custom_env", "try_from_env_root", "try_system",
                       "link_search", "link_static"} => pc = "panicked"

\* windows with openmp and tbb: four static libraries, libiomp5md last
StaticLibsShapeWitness ==
    /\ pc = "done"
    /\ target_os = "windows"
    /\ {"openmp", "tbb"} \subseteq features
    /\ Len(StaticLinked) = 4
    /\ StaticLinked[2] = "mkl_intel_thread"
    /\ StaticLinked[4] = "libiomp5md"

-----------------------------------------------------------------------------
(* C8 *)

\* C8 as stated: for every macro name, of any length, and every value,
\* int_macro returns without failing, with Some(I64 if ilp64 else I32) exactly
\* when the name starts with 'MKL_' and None otherwise.
IntMacroTotal ==
    \A i \in 1..Len(macro_calls) :
      LET c == macro_calls[i]
      IN  /\ c.ret.panic = ""
          /\ c.ret.val = IF StartsWithMKL(c.name)
                         THEN Some(IF "ilp64" \in features THEN "I64" ELSE "I32")
                         ELSE None

-----------------------------------------------------------------------------
(* C9 *)

\* C9 as stated: the threading runtime linked matches the threading layer
\* linked: with mkl_intel_thread an OpenMP runtime (iomp5 or libiomp5md) is
\* linked, tbb is not, and the search path holds omp_lib_dir; with
\* mkl_tbb_thread tbb is linked and the search path holds tbb_lib_dir; with
\* mkl_sequential neither iomp5 / libiomp5md nor tbb is linked and the search
\* path holds only mkl_lib_dir.
ThreadingRuntimeMatches ==
    (Supported /\ DynamicEmitted) =>
      /\ "mkl_intel_thread" \in Linked =>
           /\ {"iomp5", "libiomp5md"} \cap Linked # {}
           /\ "tbb" \notin Linked
           /\ install_dirs # None => install_dirs[1].omp_lib_dir \in Range(SearchPath)
      /\ "mkl_tbb_thread" \in Linked =>
           /\ "tbb" \in Linked
           /\ install_dirs # None => install_dirs[1].tbb_lib_dir \in Range(SearchPath)
      /\ "mkl_sequential" \in Linked =>
           /\ {"iomp5", "libiomp5md", "tbb"} \cap Linked = {}
           /\ install_dirs # None => SearchPath = <<install_dirs[1].mkl_lib_dir>>

=============================================================================
